---- MODULE Spec2Model ----
(***************************************************************************)
(* Model of webcrawler.py: the Wikipedia crawler (classes Webcrawler and   *)
(* Eintrag) and the driver sequence at the bottom of the file.             *)
(*                                                                         *)
(* Strings are modelled as sequences of tokens.  The tokens "https://",    *)
(* "http://", "#", "/" and ":" stand for the substrings the code tests or  *)
(* splits on; every other token is a run of characters containing none of  *)
(* them.  A graph node is a record: id = 0 is a Python str (equal by       *)
(* value), id > 0 is an Eintrag object (equal by identity, because the     *)
(* class defines __repr__ but neither __eq__ nor __hash__).                *)
(***************************************************************************)
EXTENDS Integers, Sequences, FiniteSets, TLC

VARIABLES pc, nodes, edges, file, nextId, stack, ret, caught,
          depth, runs, layers, i, c, endList, log, crawl, lastLinks

vars == <<pc, nodes, edges, file, nextId, stack, ret, caught,
          depth, runs, layers, i, c, endList, log, crawl, lastLinks>>

\* ---------------------------------------------------------------- bounds
MaxDepth == 1
MaxRuns == 1
MaxLayers == 2

\* ------------------------------------------------------- string helpers
Range(s) == {s[k] : k \in 1..Len(s)}

\* Python: tok in str(l)
Contains(s, tok) == \E k \in 1..Len(s) : s[k] = tok

FirstIndex(s, tok) == CHOOSE k \in 1..Len(s) : s[k] = tok /\ \A j \in 1..(k-1) : s[j] # tok

RECURSIVE Split(_, _)
\* Python: s.split(sep); always returns at least one (possibly empty) segment
Split(s, sep) ==
    IF ~Contains(s, sep) THEN <<s>>
    ELSE LET k == FirstIndex(s, sep)
         IN  <<SubSeq(s, 1, k-1)>> \o Split(SubSeq(s, k+1, Len(s)), sep)

\* ------------------------------------------------------------ LinkFilter
\* exc, the excluded namespaces of getLinks
exc == {"Wikipedia", "Portal", "Spezial", "Kategorie", "Datei", "Hilfe", "Diskussion"}

\* "http://de.wikipedia.org" + str(l)
flink(l) == <<"http://", "de.wikipedia.org">> \o l

RECURSIVE FilterLoop(_, _, _)
\* The first loop of getLinks over hrefs[k..]; links is the list built so far.
\* st = "end": the loop ran to its end; "return": the except branch returned
\* []; "raise": an exception left getLinks (str(l)[0] of an empty href is
\* evaluated in the if condition, before the try statement).
FilterLoop(hrefs, k, links) ==
    IF k > Len(hrefs) THEN [st |-> "end", links |-> links]
    ELSE LET l == hrefs[k] IN
      IF Contains(l, "https://") \/ Contains(l, "http://")
        THEN FilterLoop(hrefs, k+1, links)
      ELSE IF l = <<>> THEN [st |-> "raise", links |-> <<>>]
      ELSE IF l[1] = "#" THEN FilterLoop(hrefs, k+1, links)
      ELSE LET sp == Tail(Split(l, "/")) IN
        IF sp = <<>> THEN [st |-> "return", links |-> <<>>]
        ELSE IF sp[1] # <<"wiki">> THEN FilterLoop(hrefs, k+1, links)
        ELSE IF Len(sp) < 2 THEN [st |-> "return", links |-> <<>>]
        ELSE LET tg == Split(sp[2], ":") IN
          IF \E e \in exc : tg[1] = <<e>>
            THEN FilterLoop(hrefs, k+1, links)
            ELSE FilterLoop(hrefs, k+1, Append(links, l))

RECURSIVE Dedup(_, _)
\* The second loop of getLinks: absolute URLs, first occurrence kept
Dedup(links, result) ==
    IF links = <<>> THEN result
    ELSE LET f == flink(Head(links))
         IN  Dedup(Tail(links), IF f \in Range(result) THEN result ELSE Append(result, f))

\* result.pop(): IndexError on an empty list, otherwise the last entry is dropped
PopLast(result) ==
    IF result = <<>> THEN [raised |-> TRUE, links |-> <<>>]
    ELSE [raised |-> FALSE, links |-> SubSeq(result, 1, Len(result) - 1)]

\* Eintrag.getLinks on the anchor hrefs of the page
getLinks(hrefs) ==
    LET f == FilterLoop(hrefs, 1, <<>>) IN
    IF f.st = "raise" THEN [raised |-> TRUE, links |-> <<>>]
    ELSE IF f.st = "return" THEN [raised |-> FALSE, links |-> <<>>]
    ELSE PopLast(Dedup(f.links, <<>>))

\* --------------------------------------------------- the site (external)
H(name) == <<"/", "wiki", "/", name>>
U(name) == flink(H(name))
Ext(host) == <<"https://", host>>

\* hrefs of the anchors BeautifulSoup finds in the page fetched at url u
Page(u) ==
    CASE u = U("S1") -> <<Ext("x.org"), Ext("y.org"), <<"#", "cite">>, H("A")>>
      [] u = U("S2") -> <<H("A"), H("B"), H("A"), H("S2")>>
      [] u = U("A")  -> <<H("C"), H("A")>>
      [] u = U("B")  -> <<H("C"), H("M1"), H("B")>>
      [] u = U("C")  -> <<H("A"), H("C")>>
      [] u = U("T")  -> << <<"/", "wiki", "/", "Diskussion", ":", "X">>,
                           <<"/", "wiki", "/", "Spezial", ":", "Y">> >>
      [] u = U("M0") -> <<H("A"), H("B"), <<>> >>
      [] u = U("M1") -> <<H("A"), H("B"), <<"foo">> >>
      [] u = U("M2") -> <<H("A"), H("B"), <<"/", "wiki">> >>
      [] OTHER       -> <<>>

\* URLs getRandomURL can return
Seeds == {U("S1"), U("S2"), U("A"), U("T"), U("M0"), U("M1"), U("M2")}

\* ----------------------------------------------------------------- graph
UrlNode(u) == [id |-> 0, url |-> u, strurl |-> TRUE]

\* The Eintrag object number n built with url argument x (a node value)
ObjNode(n, x) == [id |-> n, url |-> x.url, strurl |-> (x.id = 0)]

\* str(x) succeeds: x is a str, or an Eintrag whose __repr__ returns a str
StrOk(x) == x.id = 0 \/ x.strurl

\* networkx add_node: appended once, insertion order kept
AddNode(ns, n) == IF n \in Range(ns) THEN ns ELSE Append(ns, n)

\* Eintrag.addToGraph: add_node(url); add_edge(source, url)
AddToGraphNodes(ns, source, url) == AddNode(AddNode(ns, url), source)
\* mutant of AddToGraphEdges: re-adding a node drops the edges that touch it
AddToGraphEdgesOverwrite(es, source, url) ==
    {e \in es : e[1] # url /\ e[2] # url} \cup {<<source, url>>}
AddToGraphEdges(es, source, url) == es \cup {<<source, url>>}

\* DiGraph.degree: in-degree + out-degree (a self-loop counts twice)
Degree(n) == Cardinality({e \in edges : e[1] = n}) + Cardinality({e \in edges : e[2] = n})

\* mutant of IndexStops: the recursion stops one level early
IndexStopsEarly(l) == l < 1
\* index returns at once when layers < 0
IndexStops(l) == l < 0

NoLinks == [called |-> FALSE, hrefs |-> <<>>, raised |-> FALSE, links |-> <<>>]
NoCrawl == [seed |-> <<>>, d |-> 0, baseNodes |-> <<>>, baseEdges |-> {},
            fetched |-> <<>>, outcome |-> "none"]

\* graph.xml left by an earlier session (a depth-0 crawl of S1)
LoadedNodes == <<UrlNode(U("S1"))>>
LoadedEdges == {<<UrlNode(U("S1")), UrlNode(U("S1"))>>}

\* Webcrawler.__init__ / initializeGraph, and the arguments of the driver
Init ==
    /\ pc = "createGraph"
    /\ file \in {[exists |-> FALSE, nnodes |-> 0], [exists |-> TRUE, nnodes |-> 1]}
    /\ nodes = IF file.exists THEN LoadedNodes ELSE <<>>
    /\ edges = IF file.exists THEN LoadedEdges ELSE {}
    /\ nextId = 1
    /\ stack = <<>>
    /\ ret = "none"
    /\ caught = FALSE
    /\ depth \in 0..MaxDepth
    /\ runs \in 1..MaxRuns
    /\ layers \in 0..MaxLayers
    /\ i = 0
    /\ c = 0
    /\ endList = <<>>
    /\ log = <<>>
    /\ crawl = NoCrawl
    /\ lastLinks = NoLinks


\* ------------------------------------------------------------- the crawl
params == <<depth, runs, layers>>

Top == stack[Len(stack)]

Frame(self, l) == [self |-> self, layers |-> l, links |-> <<>>, pc |-> "index"]

\* Webcrawler.start(url, layers): startEntry = Eintrag(url, url, self), whose
\* constructor fetches the page and calls addToGraph; then startEntry.index.
\* x is the node passed as url, r the driver position start returns to, ct
\* whether the caller wraps start in try/except.
BeginCrawl(x, d, r, ct) ==
    /\ StrOk(x)
    /\ nodes' = AddToGraphNodes(nodes, x, x)
    /\ edges' = AddToGraphEdges(edges, x, x)
    /\ stack' = <<Frame(ObjNode(nextId, x), d)>>
    /\ nextId' = nextId + 1
    /\ crawl' = [seed |-> x.url, d |-> d, baseNodes |-> nodes, baseEdges |-> edges,
                 fetched |-> <<x.url>>, outcome |-> "running"]
    /\ pc' = "crawl"
    /\ ret' = r
    /\ caught' = ct

\* An exception leaves start: caught by createGraph, fatal anywhere else
Raise(ct, r) ==
    /\ stack' = <<>>
    /\ pc' = IF ct THEN r ELSE "crashed"
    /\ crawl' = [crawl EXCEPT !.outcome = "raised"]

\* A call of index returns; the outermost return ends start
Return ==
    /\ stack' = SubSeq(stack, 1, Len(stack) - 1)
    /\ pc' = IF Len(stack) = 1 THEN ret ELSE pc
    /\ crawl' = IF Len(stack) = 1 THEN [crawl EXCEPT !.outcome = "ok"] ELSE crawl

\* index, layers < 0: return self
IndexLeaf ==
    /\ pc = "crawl" /\ Top.pc = "index"
    /\ IndexStops(Top.layers)
    /\ Return
    /\ UNCHANGED <<nodes, edges, file, nextId, ret, caught, params, i, c, endList, log, lastLinks>>

\* index, layers >= 0: self.links = self.getLinks()
IndexLinks ==
    /\ pc = "crawl" /\ Top.pc = "index"
    /\ ~IndexStops(Top.layers)
    /\ LET r == getLinks(Page(Top.self.url)) IN
       /\ ~r.raised
       /\ stack' = [stack EXCEPT ![Len(stack)] = [@ EXCEPT !.links = r.links, !.pc = "loop"]]
       /\ lastLinks' = [called |-> TRUE, hrefs |-> Page(Top.self.url),
                        raised |-> FALSE, links |-> r.links]
    /\ UNCHANGED <<pc, nodes, edges, file, nextId, ret, caught, params, i, c, endList, log, crawl>>

\* index, layers >= 0: getLinks raises IndexError
IndexRaise ==
    /\ pc = "crawl" /\ Top.pc = "index"
    /\ ~IndexStops(Top.layers)
    /\ getLinks(Page(Top.self.url)).raised
    /\ lastLinks' = [called |-> TRUE, hrefs |-> Page(Top.self.url),
                     raised |-> TRUE, links |-> <<>>]
    /\ Raise(caught, ret)
    /\ UNCHANGED <<nodes, edges, file, nextId, ret, caught, params, i, c, endList, log>>

\* for l in self.links: nextE = Eintrag(l, self, crawler); nextE.index(layers - 1)
LoopChild ==
    /\ pc = "crawl" /\ Top.pc = "loop"
    /\ Top.links # <<>>
    /\ LET l == UrlNode(Head(Top.links)) IN
       /\ nodes' = AddToGraphNodes(nodes, Top.self, l)
       /\ edges' = AddToGraphEdges(edges, Top.self, l)
       /\ stack' = Append([stack EXCEPT ![Len(stack)] = [@ EXCEPT !.links = Tail(@)]],
                          Frame(ObjNode(nextId, l), Top.layers - 1))
       /\ crawl' = [crawl EXCEPT !.fetched = Append(@, l.url)]
    /\ nextId' = nextId + 1
    /\ UNCHANGED <<pc, file, ret, caught, params, i, c, endList, log, lastLinks>>

\* requests.get (or getTitle) raises in the constructor of a child
LoopFetchFail ==
    /\ pc = "crawl" /\ Top.pc = "loop"
    /\ Top.links # <<>>
    /\ Raise(caught, ret)
    /\ UNCHANGED <<nodes, edges, file, nextId, ret, caught, params, i, c, endList, log, lastLinks>>

\* the for loop of index is exhausted: return self.leaves
LoopReturn ==
    /\ pc = "crawl" /\ Top.pc = "loop"
    /\ Top.links = <<>>
    /\ Return
    /\ UNCHANGED <<nodes, edges, file, nextId, ret, caught, params, i, c, endList, log, lastLinks>>

\* ------------------------------------------------------------ the driver
\* createGraph(layers): try: self.start(self.getRandomURL(), layers)
CreateGraph ==
    /\ pc = "createGraph"
    /\ \E u \in Seeds : BeginCrawl(UrlNode(u), depth, "testNodeIncrease", TRUE)
    /\ UNCHANGED <<file, params, i, c, endList, log, lastLinks>>

\* createGraph: getRandomURL or the fetch of the seed raises; except prints it
CreateGraphFail ==
    /\ pc = "createGraph"
    /\ pc' = "testNodeIncrease"
    /\ crawl' = [crawl EXCEPT !.outcome = "raised"]
    /\ UNCHANGED <<nodes, edges, file, nextId, stack, ret, caught, params, i, c, endList, log, lastLinks>>

\* resetGraph: os.remove("graph.xml"); a failure is printed.  self.graph is
\* not touched.
resetGraph == [exists |-> FALSE, nnodes |-> 0]

\* testNodeIncrease(runs, layers): self.resetGraph(), then the loop over runs
TestNodeIncrease ==
    /\ pc = "testNodeIncrease"
    /\ file' = resetGraph
    /\ i' = 0
    /\ pc' = "runSeed"
    /\ UNCHANGED <<nodes, edges, nextId, stack, ret, caught, params, c, endList, log, crawl, lastLinks>>

\* for i in range(runs): url = self.getRandomURL(); self.start(url, 0)
RunSeed ==
    /\ pc = "runSeed" /\ i < runs
    /\ \E u \in Seeds : BeginCrawl(UrlNode(u), 0, "logSeed", FALSE)
    /\ UNCHANGED <<file, params, i, c, endList, log, lastLinks>>

\* getRandomURL or the fetch of the seed raises: nothing catches it
RunSeedFail ==
    /\ pc = "runSeed" /\ i < runs
    /\ pc' = "crashed"
    /\ crawl' = [crawl EXCEPT !.outcome = "raised"]
    /\ UNCHANGED <<nodes, edges, file, nextId, stack, ret, caught, params, i, c, endList, log, lastLinks>>

\* range(runs) is exhausted: testNodeIncrease returns
RunsDone ==
    /\ pc = "runSeed" /\ i >= runs
    /\ pc' = "testCycles"
    /\ UNCHANGED <<nodes, edges, file, nextId, stack, ret, caught, params, i, c, endList, log, crawl, lastLinks>>

\* the iteration index written after the expansion numbered cc
LayerLabel(cc) == cc

\* a line of testNodeIncrease.txt: str(i) + "." + str(it) + ": " + count
Record(r, it, n, nl) == [run |-> r, iteration |-> it, count |-> n, nl |-> nl]

\* string = str(i) + ".0: " + str(number_of_nodes()) + "\n"; file.write(string)
LogSeed ==
    /\ pc = "logSeed"
    /\ log' = Append(log, Record(i, 0, Len(nodes), TRUE))
    /\ c' = 0
    /\ pc' = "layer"
    /\ UNCHANGED <<nodes, edges, file, nextId, stack, ret, caught, params, i, endList, crawl, lastLinks>>

\* for c in range(layers): endList = the nodes of degree 1
LayerBegin ==
    /\ pc = "layer" /\ c < layers
    /\ endList' = SelectSeq(nodes, LAMBDA n : Degree(n) = 1)
    /\ pc' = "expand"
    /\ UNCHANGED <<nodes, edges, file, nextId, stack, ret, caught, params, i, c, log, crawl, lastLinks>>

\* range(layers) is exhausted: next run
RunEnd ==
    /\ pc = "layer" /\ c >= layers
    /\ i' = i + 1
    /\ pc' = "runSeed"
    /\ UNCHANGED <<nodes, edges, file, nextId, stack, ret, caught, params, c, endList, log, crawl, lastLinks>>

\* for e in endList: self.start(e, 0)
Expand ==
    /\ pc = "expand" /\ endList # <<>>
    /\ BeginCrawl(Head(endList), 0, "expand", FALSE)
    /\ endList' = Tail(endList)
    /\ UNCHANGED <<file, params, i, c, log, lastLinks>>

\* the fetch of e raises (or str(e) raises TypeError): nothing catches it
ExpandFail ==
    /\ pc = "expand" /\ endList # <<>>
    /\ pc' = "crashed"
    /\ crawl' = [crawl EXCEPT !.outcome = "raised"]
    /\ UNCHANGED <<nodes, edges, file, nextId, stack, ret, caught, params, i, c, endList, log, lastLinks>>

\* string = str(i) + "." + str(c) + ": " + str(number_of_nodes()); file.write(string)
LogLayer ==
    /\ pc = "expand" /\ endList = <<>>
    /\ log' = Append(log, Record(i, LayerLabel(c), Len(nodes), FALSE))
    /\ c' = c + 1
    /\ pc' = "layer"
    /\ UNCHANGED <<nodes, edges, file, nextId, stack, ret, caught, params, i, endList, crawl, lastLinks>>

\* testCycles: counts the cycle basis of an undirected copy
TestCycles ==
    /\ pc = "testCycles"
    /\ pc' = "testShortestPath"
    /\ UNCHANGED <<nodes, edges, file, nextId, stack, ret, caught, params, i, c, endList, log, crawl, lastLinks>>

\* testShortestPath: sample(nodes, 2) and str() of both succeed; a missing
\* path is caught
TestShortestPath ==
    /\ pc = "testShortestPath"
    /\ \E a, b \in Range(nodes) : a # b /\ StrOk(a) /\ StrOk(b)
    /\ pc' = "finishGraph"
    /\ UNCHANGED <<nodes, edges, file, nextId, stack, ret, caught, params, i, c, endList, log, crawl, lastLinks>>

\* testShortestPath: sample raises ValueError on fewer than 2 nodes, or str()
\* of a sampled node raises TypeError; both are outside the try
TestShortestPathRaise ==
    /\ pc = "testShortestPath"
    /\ Len(nodes) < 2 \/ \E a \in Range(nodes) : ~StrOk(a)
    /\ pc' = "crashed"
    /\ UNCHANGED <<nodes, edges, file, nextId, stack, ret, caught, params, i, c, endList, log, crawl, lastLinks>>

\* finishGraph: write_graphml(self.graph, "graph.xml")
FinishGraph ==
    /\ pc = "finishGraph"
    /\ file' = [exists |-> TRUE, nnodes |-> Len(nodes)]
    /\ pc' = "done"
    /\ UNCHANGED <<nodes, edges, nextId, stack, ret, caught, params, i, c, endList, log, crawl, lastLinks>>

Next ==
    \/ CreateGraph \/ CreateGraphFail
    \/ IndexLeaf \/ IndexLinks \/ IndexRaise
    \/ LoopChild \/ LoopFetchFail \/ LoopReturn
    \/ TestNodeIncrease \/ RunSeed \/ RunSeedFail \/ RunsDone
    \/ LogSeed \/ LayerBegin \/ RunEnd \/ Expand \/ ExpandFail \/ LogLayer
    \/ TestCycles \/ TestShortestPath \/ TestShortestPathRaise \/ FinishGraph

Spec == Init /\ [][Next]_vars


\* ================================================================ claims
\* Classes of hrefs the claims speak about
External(h) == Contains(h, "https://") \/ Contains(h, "http://")
Fragment(h) == h # <<>> /\ h[1] = "#"
WikiLink(h) == Len(h) >= 4 /\ SubSeq(h, 1, 3) = <<"/", "wiki", "/">>
Article(h) == WikiLink(h) /\ Len(h) = 4 /\ h[4] \notin exc \cup {"/", ":", "#"}
ExcludedNs(h) == WikiLink(h) /\ h[4] \in exc /\ (Len(h) > 4 => h[5] = ":")
Malformed(h) ==
    \/ h = <<>>
    \/ ~External(h) /\ ~Fragment(h) /\ ~Contains(h, "/")
    \/ h = <<"/", "wiki">>

Count(hrefs, P(_)) == Cardinality({k \in 1..Len(hrefs) : P(hrefs[k])})

\* the crawl that ended last ran start(seed, 0) on an empty graph and returned
CrawledFromEmpty ==
    /\ crawl.outcome = "ok" /\ crawl.d = 0
    /\ crawl.baseNodes = <<>> /\ crawl.baseEdges = {}

\* 4 anchors: two external, one fragment, exactly one valid article href
ScenarioOnePage(hrefs) ==
    /\ Len(hrefs) = 4
    /\ Count(hrefs, LAMBDA h : Contains(h, "https://")) = 2
    /\ Count(hrefs, Fragment) = 1
    /\ Count(hrefs, Article) = 1

\* C1: a depth-0 crawl, started on an empty graph, of a seed with two
\* external hrefs, one fragment href and one valid article href ends with
\* exactly the 2 nodes seed and target and exactly the 1 edge seed -> target.
C1_DepthZeroTwoNodesOneEdge ==
    (CrawledFromEmpty /\ ScenarioOnePage(Page(crawl.seed))) =>
        LET hrefs == Page(crawl.seed)
            a == CHOOSE k \in 1..Len(hrefs) : Article(hrefs[k])
            seed == UrlNode(crawl.seed)
            target == UrlNode(flink(hrefs[a]))
        IN  /\ Len(nodes) = 2
            /\ Range(nodes) = {seed, target}
            /\ edges = {<<seed, target>>}

\* every href is filtered out, and at least one is a /wiki/ link
OnlyRejected(hrefs) ==
    /\ \A k \in 1..Len(hrefs) : External(hrefs[k]) \/ Fragment(hrefs[k]) \/ ExcludedNs(hrefs[k])
    /\ \E k \in 1..Len(hrefs) : ExcludedNs(hrefs[k])

\* C2: when index calls getLinks on a page all of whose internal links are
\* rejected by the filter, getLinks returns the empty list without raising.
C2_AllRejectedReturnsEmpty ==
    (lastLinks.called /\ OnlyRejected(lastLinks.hrefs)) =>
        (~lastLinks.raised /\ lastLinks.links = <<>>)

\* C3: once the driver sequence has ended, finishGraph has run and has
\* persisted the graph accumulated so far, whatever failed inside the crawls.
C3_PipelineAlwaysPersists ==
    pc \in {"done", "crashed"} =>
        (pc = "done" /\ file.exists /\ file.nnodes = Len(nodes))

\* C4: when index calls getLinks on a page with a malformed href (empty, no
\* '/', or "/wiki" alone), getLinks returns the empty list without raising.
C4_MalformedReturnsEmpty ==
    (lastLinks.called /\ \E k \in 1..Len(lastLinks.hrefs) : Malformed(lastLinks.hrefs[k])) =>
        (~lastLinks.raised /\ lastLinks.links = <<>>)

\* C5: no crawl invocation registers a self-edge (u, u); the seed gets no
\* source edge.
C5_NoSelfEdge ==
    crawl.outcome # "none" => \A e \in edges \ crawl.baseEdges : e[1] # e[2]

\* C6: every node is a URL-keyed node, one per distinct URL, and every edge
\* leaves the URL node of the parent page.
C6_OneNodePerArticle ==
    /\ \A n \in Range(nodes) : n.id = 0
    /\ \A e \in edges : e[1].id = 0 /\ e[2].id = 0
    /\ Cardinality({n.url : n \in Range(nodes)}) = Len(nodes)

\* C7: the graph is empty when the seed crawl of the first run of
\* testNodeIncrease starts.
C7_GrowthTestStartsEmpty ==
    (pc = "runSeed" /\ i = 0) => (nodes = <<>> /\ edges = {})

\* C8: every step keeps every node and every edge (also the step in which a
\* fetch error aborts the crawl): the graph only grows.
C8_GraphOnlyGrows ==
    [][Range(nodes) \subseteq Range(nodes') /\ edges \subseteq edges']_vars

\* C8 witness: a crawl was aborted by a fetch error after it had fetched at
\* least two pages, and what it registered is in the graph
C8_Witness ==
    /\ crawl.outcome = "raised" /\ ~lastLinks.raised
    /\ Len(crawl.fetched) >= 2
    /\ Len(nodes) > Len(crawl.baseNodes)
    /\ \A k \in 1..Len(crawl.fetched) : UrlNode(crawl.fetched[k]) \in Range(nodes)

RunRecords(r) == SelectSeq(log, LAMBDA rec : rec.run = r)

\* C9: every completed run has exactly layers+1 records, labelled 0..layers
\* in order, one per line, with non-decreasing node counts.
C9_GrowthLogRecords ==
    \A r \in 0..(i-1) :
        LET rs == RunRecords(r) IN
        /\ Len(rs) = layers + 1
        /\ \A k \in 1..Len(rs) :
              /\ rs[k].iteration = k - 1
              /\ rs[k].nl
              /\ k > 1 => rs[k-1].count <= rs[k].count

RECURSIVE ExpectedFetches(_, _), ExpectedChildren(_, _)
\* the recursion tree of start(u, d) in preorder: u, then for d >= 0 the
\* trees of the filtered links of u with depth d-1
ExpectedFetches(u, d) ==
    IF d < 0 THEN <<u>> ELSE <<u>> \o ExpectedChildren(getLinks(Page(u)).links, d - 1)
ExpectedChildren(ls, d) ==
    IF ls = <<>> THEN <<>> ELSE ExpectedFetches(Head(ls), d) \o ExpectedChildren(Tail(ls), d)

IsPrefix(s, t) == Len(s) <= Len(t) /\ SubSeq(t, 1, Len(s)) = s

\* C10: the fetches of a crawl are the nodes of its recursion tree, one
\* fetch each and in preorder (no visited set); a page with remaining depth
\* -1 is never filtered or followed, so the recursion is at most d+2 deep.
C10_OneFetchPerTreeNode ==
    /\ IsPrefix(crawl.fetched, ExpectedFetches(crawl.seed, crawl.d))
    /\ crawl.outcome = "ok" => crawl.fetched = ExpectedFetches(crawl.seed, crawl.d)
    /\ pc = "crawl" =>
          /\ Len(stack) <= crawl.d + 2
          /\ \A k \in 1..Len(stack) :
                /\ stack[k].layers = crawl.d - (k - 1)
                /\ stack[k].pc = "loop" => stack[k].layers >= 0

\* C10 witness: a crawl of depth >= 1 returned and fetched one URL twice
C10_Witness ==
    /\ crawl.outcome = "ok" /\ crawl.d >= 1
    /\ \E j, k \in 1..Len(crawl.fetched) : j < k /\ crawl.fetched[j] = crawl.fetched[k]

====
